---- MODULE Spec2Model ----
(***************************************************************************)
(* State-machine model of MyNala_Telegram_Reward_Bot.py: the users table   *)
(* behind the shared sqlite3 connection, db_lock, the wall clock, and the  *)
(* Telegram command handlers /verify, /buy, /status, /claim, /referrals    *)
(* and /leaderboard run by concurrent request threads.                     *)
(***************************************************************************)
EXTENDS Integers, Sequences, FiniteSets, TLC

\* ------------------------------------------------------------------ bounds
MaxDay == 3          \* the clock advances at most this many days
MaxVolume == 4       \* the purchases accepted add up to at most this

AllThreads == {"t1", "t2"}   \* request threads of the web server
Threads == {"t1"}            \* those that take requests in Spec and SpecSeeded:
                             \* there the updates are handled one at a time
Chats == {1, 2}
Wallets == {"W1", "W2"}
AmountTexts == {"1", "2", "0", "-5", "abc"}
StartDate == <<2026, 2, 27>>

\* ------------------------------------------------- dates (datetime, str)
IsLeap(y) == (y % 4 = 0 /\ y % 100 # 0) \/ y % 400 = 0

DaysInMonth(y, m) ==
  IF m = 2 THEN (IF IsLeap(y) THEN 29 ELSE 28)
  ELSE IF m \in {4, 6, 9, 11} THEN 30 ELSE 31

RECURSIVE DaysBeforeMonth(_, _)
DaysBeforeMonth(y, m) ==
  IF m = 1 THEN 0 ELSE DaysBeforeMonth(y, m - 1) + DaysInMonth(y, m - 1)

\* date.toordinal(): proleptic Gregorian day number
Ordinal(d) ==
  LET y == d[1] - 1
  IN  365 * y + (y \div 4) - (y \div 100) + (y \div 400)
      + DaysBeforeMonth(d[1], d[2]) + d[3]

\* the calendar day after d (a wall clock tick across midnight UTC)
NextDay(d) ==
  IF d[3] < DaysInMonth(d[1], d[2]) THEN <<d[1], d[2], d[3] + 1>>
  ELSE IF d[2] < 12 THEN <<d[1], d[2] + 1, 1>>
  ELSE <<d[1] + 1, 1, 1>>

\* strftime("%Y-%m-%d"): the zero-padded digits YYYYMMDD (hyphens are fixed)
StrFTime(d) ==
  << (d[1] \div 1000) % 10, (d[1] \div 100) % 10, (d[1] \div 10) % 10, d[1] % 10,
     (d[2] \div 10) % 10, d[2] % 10,
     (d[3] \div 10) % 10, d[3] % 10 >>

\* datetime.strptime(s, "%Y-%m-%d").date()
StrPTime(s) ==
  << 1000 * s[1] + 100 * s[2] + 10 * s[3] + s[4],
     10 * s[5] + s[6],
     10 * s[7] + s[8] >>

\* SQL NULL in a TEXT column (last_purchase, referred_by)
NullText == <<>>
NullWallet == "NULL"

\* ------------------------------------------------------- reward constants
StreakMilestones == {3, 5, 7, 14, 30}

BUY_STREAK_REWARDS ==
  [s \in StreakMilestones |->
     CASE s = 3 -> 50000 [] s = 5 -> 100000 [] s = 7 -> 200000
       [] s = 14 -> 500000 [] s = 30 -> 1000000]

REFERRAL_BONUS_CAP == 500000


\* ------------------------------------------------------------------ state
VARIABLES
  users,     \* the users table as the shared connection sees it: chat_id -> row
  created,   \* chat_ids in the order their rows were inserted
  db_lock,   \* holder of db_lock, or NoThread
  clock,     \* current UTC calendar date of the wall clock
  pc,        \* per request thread: "idle", "waiting" (at `with db_lock`), "locked"
  msg,       \* per request thread: the Telegram message being handled
  reply,     \* per request thread: the reply handed to _safe_reply_to for its message
  fetched    \* per request thread: buy_tokens' local `result` (cursor.fetchone())

vars == <<users, created, db_lock, clock, pc, msg, reply, fetched>>

NoThread == "none"
EmptyTable == [c \in {} |-> 0]
NoMsg == [chat |-> 0, parts |-> <<>>, now |-> <<>>]

\* the reply texts, by kind, with the numbers the /buy reply prints
Reply(kind, wallet, streak, volume, reward, total) ==
  [kind |-> kind, wallet |-> wallet, streak |-> streak, volume |-> volume,
   reward |-> reward, total |-> total, referrals |-> 0, board |-> <<>>]

Plain(kind, wallet) == Reply(kind, wallet, 0, 0, 0, 0)

\* no reply sent yet for the thread's message
NoReply == Plain("none", "")

\* int(parts[2]): the value, or ValueError
ParseInt(text) ==
  CASE text = "1" -> [ok |-> TRUE, value |-> 1]
    [] text = "2" -> [ok |-> TRUE, value |-> 2]
    [] text = "0" -> [ok |-> TRUE, value |-> 0]
    [] text = "-5" -> [ok |-> TRUE, value |-> -5]
    [] OTHER -> [ok |-> FALSE, value |-> 0]

\* message.text.split() of the texts the model sends
Messages ==
  {<<"/verify">>, <<"/leaderboard">>}
    \cup {<<"/verify", w>> : w \in Wallets}
    \cup {<<"/verify", wr[1], wr[2]>> : wr \in {x \in Wallets \X Wallets : x[1] # x[2]}}
    \cup {<<"/buy", w>> : w \in Wallets}
    \cup {<<"/buy", w, a>> : w \in Wallets, a \in AmountTexts}
    \cup {<<c, w>> : c \in {"/status", "/claim", "/referrals"}, w \in Wallets}

Command(m) == m.parts[1]

\* outcomes of the sqlite3 calls of one handler: all succeed; a statement
\* raises sqlite3.Error and changes nothing (as does a commit that fails and
\* is rolled back by SQLite itself); or conn.commit() raises sqlite3.Error
\* (e.g. "database is locked") and leaves the transaction open on the shared
\* connection: no handler calls conn.rollback()
DbOutcomes == {"ok", "execute_raises", "commit_raises"}

\* cursor.execute("SELECT ... FROM users WHERE wallet=?"): the matching keys
SelectByWallet(tbl, wallet) == {c \in DOMAIN tbl : tbl[c].wallet = wallet}

\* mutant of InsertedRow: verified is left at the schema default 0
InsertedRowUnverified(wallet, last_purchase) ==
  [wallet |-> wallet, verified |-> 0, streak_days |-> 0,
   last_purchase |-> last_purchase, total_volume |-> 0, referral_count |-> 0,
   total_rewards |-> 0, referred_by |-> NullWallet]

\* mutant of InsertedRow: the row records a referrer
InsertedRowReferred(wallet, last_purchase) ==
  [wallet |-> wallet, verified |-> 1, streak_days |-> 0,
   last_purchase |-> last_purchase, total_volume |-> 0, referral_count |-> 0,
   total_rewards |-> 0, referred_by |-> IF wallet = "W1" THEN "W2" ELSE "W1"]

\* the row INSERT INTO users (chat_id, wallet, verified, last_purchase)
\* VALUES (?, ?, 1, ?) stores, the other columns taking the schema defaults
InsertedRow(wallet, last_purchase) ==
  [wallet |-> wallet, verified |-> 1, streak_days |-> 0,
   last_purchase |-> last_purchase, total_volume |-> 0, referral_count |-> 0,
   total_rewards |-> 0, referred_by |-> NullWallet]

\* the row cursor.fetchone() gave buy_tokens: not fetched yet, None, or a row
NullRow == InsertedRow("", NullText)
NotFetched == [state |-> "not_fetched", row |-> NullRow]
FetchOne(tbl, wallet) ==
  LET keys == SelectByWallet(tbl, wallet)
  IN IF keys = {} THEN [state |-> "none", row |-> NullRow]
     ELSE [state |-> "row", row |-> tbl[CHOOSE c \in keys : TRUE]]

\* what a handler's `with db_lock:` block does: the users table as the shared
\* connection sees it afterwards, and the reply
Outcome(tbl, rep) == [tbl |-> tbl, reply |-> rep]


\* ------------------------------------------------------------ /verify
\* the table after INSERT INTO users (chat_id, wallet, verified, last_purchase)
InsertUser(tbl, chat_id, wallet, last_purchase) ==
  [c \in DOMAIN tbl \cup {chat_id} |->
     IF c = chat_id THEN InsertedRow(wallet, last_purchase) ELSE tbl[c]]

\* the last_purchase value verify_wallet stores with a new row
VerifyLastPurchase(now) == StrFTime(now)

\* mutant of VerifyWallet: a repeated /verify by the owner stores the row
\* anew (INSERT OR REPLACE), losing the streak, the volume and the rewards
VerifyWalletReplaces(tbl, chat_id, wallet, now, db) ==
  LET result == SelectByWallet(tbl, wallet)
  IN
  IF db = "execute_raises" THEN Outcome(tbl, Plain("db_error", wallet))
  ELSE IF result # {} /\ chat_id \notin result
    THEN Outcome(tbl, Plain("linked_to_another", wallet))
  ELSE IF result = {} /\ chat_id \in DOMAIN tbl
    THEN Outcome(tbl, Plain("integrity_error", wallet))
  ELSE Outcome(InsertUser(tbl, chat_id, wallet, VerifyLastPurchase(now)),
               Plain(IF result = {} THEN "verified" ELSE "already_verified", wallet))

\* mutant of VerifyWallet: a /verify by another chat takes the wallet over
\* (the row is re-linked to the caller when the caller owns no row)
VerifyWalletRelinks(tbl, chat_id, wallet, now, db) ==
  LET result == SelectByWallet(tbl, wallet)
  IN
  IF db = "execute_raises" THEN Outcome(tbl, Plain("db_error", wallet))
  ELSE IF result # {} THEN
    LET existing_chat_id == CHOOSE c \in result : TRUE
    IN
    IF existing_chat_id = chat_id
    THEN Outcome(tbl, Plain("already_verified", wallet))
    ELSE IF chat_id \in DOMAIN tbl
    THEN Outcome(tbl, Plain("linked_to_another", wallet))
    ELSE Outcome([c \in (DOMAIN tbl \ {existing_chat_id}) \cup {chat_id} |->
                    IF c = chat_id THEN tbl[existing_chat_id] ELSE tbl[c]],
                 Plain("verified", wallet))
  ELSE IF chat_id \in DOMAIN tbl
    THEN Outcome(tbl, Plain("integrity_error", wallet))
  ELSE Outcome(InsertUser(tbl, chat_id, wallet, VerifyLastPurchase(now)),
               Plain("verified", wallet))

\* mutant of VerifyWallet: no lookup of the wallet, and no UNIQUE constraint on
\* it: every chat without a row gets one for the wallet it names
VerifyWalletNoLookup(tbl, chat_id, wallet, now, db) ==
  IF db = "execute_raises" THEN Outcome(tbl, Plain("db_error", wallet))
  ELSE IF chat_id \in DOMAIN tbl
    THEN Outcome(tbl, Plain(IF tbl[chat_id].wallet = wallet THEN "already_verified"
                            ELSE "integrity_error", wallet))
  ELSE Outcome(InsertUser(tbl, chat_id, wallet, VerifyLastPurchase(now)),
               Plain("verified", wallet))

\* mutant of VerifyWallet: a chat that owns a row and names a wallet without
\* account has its row re-bound to that wallet (INSERT OR REPLACE)
VerifyWalletRebinds(tbl, chat_id, wallet, now, db) ==
  LET result == SelectByWallet(tbl, wallet)
  IN
  IF db = "execute_raises" THEN Outcome(tbl, Plain("db_error", wallet))
  ELSE IF result # {} THEN
    IF chat_id \in result
    THEN Outcome(tbl, Plain("already_verified", wallet))
    ELSE Outcome(tbl, Plain("linked_to_another", wallet))
  ELSE Outcome(InsertUser(tbl, chat_id, wallet, VerifyLastPurchase(now)),
               Plain("verified", wallet))

\* mutant of VerifyWallet: a /verify by another chat removes the account of the
\* wallet and creates it anew for the caller
VerifyWalletEvicts(tbl, chat_id, wallet, now, db) ==
  LET result == SelectByWallet(tbl, wallet)
      kept == [c \in DOMAIN tbl \ result |-> tbl[c]]
  IN
  IF db = "execute_raises" THEN Outcome(tbl, Plain("db_error", wallet))
  ELSE IF chat_id \in result THEN Outcome(tbl, Plain("already_verified", wallet))
  ELSE IF chat_id \in DOMAIN tbl THEN Outcome(tbl, Plain("integrity_error", wallet))
  ELSE Outcome(InsertUser(kept, chat_id, wallet, VerifyLastPurchase(now)),
               Plain("verified", wallet))

\* verify_wallet's `with db_lock:` block for chat_id and parts[1] = wallet
VerifyWallet(tbl, chat_id, wallet, now, db) ==
  LET result == SelectByWallet(tbl, wallet)
  IN
  IF db = "execute_raises" THEN Outcome(tbl, Plain("db_error", wallet))
  ELSE IF result # {} THEN
    LET existing_chat_id == CHOOSE c \in result : TRUE
    IN
    IF existing_chat_id = chat_id THEN
      IF tbl[existing_chat_id].verified = 1
      THEN Outcome(tbl, Plain("already_verified", wallet))
      ELSE
        LET upd == [tbl EXCEPT ![chat_id].verified = 1]
        IN IF db = "commit_raises"
           THEN Outcome(upd, Plain("db_error", wallet))
           ELSE Outcome(upd, Plain("re_verified", wallet))
    ELSE Outcome(tbl, Plain("linked_to_another", wallet))
  ELSE IF chat_id \in DOMAIN tbl
    \* chat_id INTEGER PRIMARY KEY: the INSERT raises sqlite3.IntegrityError
    THEN Outcome(tbl, Plain("integrity_error", wallet))
  ELSE
    LET ins == InsertUser(tbl, chat_id, wallet, VerifyLastPurchase(now))
    IN IF db = "commit_raises"
       THEN Outcome(ins, Plain("db_error", wallet))
       ELSE Outcome(ins, Plain("verified", wallet))

\* --------------------------------------------------------------- /buy
\* mutant of NewStreak: a gap of more than one day does not reset the streak
NewStreakNoReset(current_streak, last_purchase_str, now) ==
  IF last_purchase_str # NullText THEN
    LET days_diff == Ordinal(now) - Ordinal(StrPTime(last_purchase_str))
    IN IF days_diff >= 1 THEN current_streak + 1
       ELSE IF days_diff < 0 THEN 1
       ELSE current_streak
  ELSE 1

\* mutant of NewStreak: a last_purchase in the future leaves the streak as it is
NewStreakKeepsOnFuture(current_streak, last_purchase_str, now) ==
  IF last_purchase_str # NullText THEN
    LET days_diff == Ordinal(now) - Ordinal(StrPTime(last_purchase_str))
    IN IF days_diff = 1 THEN current_streak + 1
       ELSE IF days_diff > 1 THEN 1
       ELSE current_streak
  ELSE 1

\* the streak transition of buy_tokens
NewStreak(current_streak, last_purchase_str, now) ==
  IF last_purchase_str # NullText THEN
    LET last_purchase_date == StrPTime(last_purchase_str)
        days_diff == Ordinal(now) - Ordinal(last_purchase_date)
    IN IF days_diff = 1 THEN current_streak + 1
       ELSE IF days_diff > 1 THEN 1
       ELSE IF days_diff < 0 THEN 1
       ELSE current_streak
  ELSE 1

\* mutant of NewVolume: counts purchases instead of adding their amounts
NewVolumeCountsBuys(current_volume, amount) == current_volume + 1

\* mutant of NewVolume: stores the amount of the purchase as the volume
NewVolumeOverwrites(current_volume, amount) == amount

NewVolume(current_volume, amount) == current_volume + amount

\* mutant of StreakRewardGained: pays the last milestone reached on every day
\* at or past it, not only on the day the streak equals it
StreakRewardAtLeast(new_streak) ==
  LET reached == {m \in DOMAIN BUY_STREAK_REWARDS : m <= new_streak}
  IN IF reached = {} THEN 0
     ELSE BUY_STREAK_REWARDS[CHOOSE m \in reached : \A n \in reached : n <= m]

\* BUY_STREAK_REWARDS.get(new_streak, 0)
StreakRewardGained(new_streak) ==
  IF new_streak \in DOMAIN BUY_STREAK_REWARDS THEN BUY_STREAK_REWARDS[new_streak] ELSE 0

\* mutant of UpdatePurchase: the UPDATE has no WHERE clause
UpdatePurchaseNoWhere(tbl, wallet, new_streak, today_utc_str, new_volume, new_total_rewards) ==
  [c \in DOMAIN tbl |->
     [tbl[c] EXCEPT !.streak_days = new_streak,
                    !.last_purchase = today_utc_str,
                    !.total_volume = new_volume,
                    !.total_rewards = new_total_rewards]]

\* the table after UPDATE users SET streak_days=?, last_purchase=?,
\* total_volume=?, total_rewards=? WHERE wallet=?
UpdatePurchase(tbl, wallet, new_streak, today_utc_str, new_volume, new_total_rewards) ==
  [c \in DOMAIN tbl |->
     IF tbl[c].wallet = wallet
     THEN [tbl[c] EXCEPT !.streak_days = new_streak,
                         !.last_purchase = today_utc_str,
                         !.total_volume = new_volume,
                         !.total_rewards = new_total_rewards]
     ELSE tbl[c]]

\* mutant of BuyTokens: a purchase on a wallet without account registers the
\* wallet (for a chat that owns no row yet) instead of failing
BuyTokensCreates(tbl, result, wallet, amount, now, db) ==
  IF db = "execute_raises" THEN Outcome(tbl, Plain("db_error", wallet))
  ELSE IF result.state = "row" THEN
    IF result.row.verified = 0 THEN Outcome(tbl, Plain("not_verified", wallet))
    ELSE
      LET new_streak == NewStreak(result.row.streak_days, result.row.last_purchase, now)
          new_volume == NewVolume(result.row.total_volume, amount)
          new_total_rewards == result.row.total_rewards + StreakRewardGained(new_streak)
      IN Outcome(UpdatePurchase(tbl, wallet, new_streak, StrFTime(now),
                                new_volume, new_total_rewards),
                 IF db = "commit_raises" THEN Plain("db_error", wallet)
                 ELSE Reply("buy_recorded", wallet, new_streak, new_volume,
                            StreakRewardGained(new_streak), new_total_rewards))
  ELSE IF Chats \ DOMAIN tbl = {} THEN Outcome(tbl, Plain("wallet_not_found", wallet))
  ELSE LET chat_id == CHOOSE c \in Chats \ DOMAIN tbl : TRUE
           ins == InsertUser(tbl, chat_id, wallet, StrFTime(now))
       IN Outcome([ins EXCEPT ![chat_id].total_volume = amount, ![chat_id].streak_days = 1],
                  Reply("buy_recorded", wallet, 1, amount, 0, 0))

\* buy_tokens' `with db_lock:` block from the row fetched on; now is the clock
\* read before the lock
BuyTokens(tbl, result, wallet, amount, now, db) ==
  IF db = "execute_raises" THEN Outcome(tbl, Plain("db_error", wallet))
  ELSE IF result.state = "row" THEN
    LET row == result.row
    IN
    IF row.verified = 0 THEN Outcome(tbl, Plain("not_verified", wallet))
    ELSE
      LET new_streak == NewStreak(row.streak_days, row.last_purchase, now)
          new_volume == NewVolume(row.total_volume, amount)
          streak_reward_gained == StreakRewardGained(new_streak)
          new_total_rewards == row.total_rewards + streak_reward_gained
          upd == UpdatePurchase(tbl, wallet, new_streak, StrFTime(now),
                                new_volume, new_total_rewards)
      IN IF db = "commit_raises"
         THEN Outcome(upd, Plain("db_error", wallet))
         ELSE Outcome(upd,
               Reply("buy_recorded", wallet, new_streak, new_volume,
                            streak_reward_gained, new_total_rewards))
  ELSE Outcome(tbl, Plain("wallet_not_found", wallet))


\* ------------------------------------------------------------ queries
\* check_status' `with db_lock:` block
CheckStatus(tbl, wallet, db) ==
  LET result == SelectByWallet(tbl, wallet)
  IN
  IF db = "execute_raises" THEN Outcome(tbl, Plain("db_error", wallet))
  ELSE IF result # {} THEN
    LET row == tbl[CHOOSE c \in result : TRUE]
    IN Outcome(tbl,
               Reply(IF row.verified = 1 THEN "status_verified" ELSE "status_not_verified",
                     wallet, row.streak_days, row.total_volume, 0, row.total_rewards))
  ELSE Outcome(tbl, Plain("wallet_not_found", wallet))

\* mutant of ClaimRewards: a claim pays the rewards out and zeroes them
ClaimRewardsPaysOut(tbl, wallet, db) ==
  LET result == SelectByWallet(tbl, wallet)
  IN
  IF db = "execute_raises" THEN Outcome(tbl, Plain("db_error", wallet))
  ELSE IF result # {} THEN
    LET c == CHOOSE k \in result : TRUE
    IN Outcome([tbl EXCEPT ![c].total_rewards = 0],
               Reply(IF tbl[c].verified = 1 THEN "claim_rewards" ELSE "claim_not_verified",
                     wallet, 0, 0, 0, tbl[c].total_rewards))
  ELSE Outcome(tbl, Plain("wallet_not_found", wallet))

\* claim_rewards' `with db_lock:` block
ClaimRewards(tbl, wallet, db) ==
  LET result == SelectByWallet(tbl, wallet)
  IN
  IF db = "execute_raises" THEN Outcome(tbl, Plain("db_error", wallet))
  ELSE IF result # {} THEN
    LET row == tbl[CHOOSE c \in result : TRUE]
    IN Outcome(tbl,
               Reply(IF row.verified = 1 THEN "claim_rewards" ELSE "claim_not_verified",
                     wallet, 0, 0, 0, row.total_rewards))
  ELSE Outcome(tbl, Plain("wallet_not_found", wallet))

\* check_referrals' `with db_lock:` block
CheckReferrals(tbl, wallet, db) ==
  LET result == SelectByWallet(tbl, wallet)
  IN
  IF db = "execute_raises" THEN Outcome(tbl, Plain("db_error", wallet))
  ELSE IF result # {} THEN
    LET row == tbl[CHOOSE c \in result : TRUE]
    IN Outcome(tbl,
               [Plain(IF row.verified = 1 THEN "referrals" ELSE "referrals_not_verified",
                      wallet) EXCEPT !.referrals = row.referral_count])
  ELSE Outcome(tbl, Plain("wallet_not_found", wallet))

\* LIMIT of the leaderboard queries
limit == 5

\* all orderings of the elements of a finite set
RECURSIVE Orderings(_)
Orderings(S) ==
  IF S = {} THEN {<<>>}
  ELSE UNION {{<<x>> \o q : q \in Orderings(S \ {x})} : x \in S}

\* SELECT wallet, <col> FROM users WHERE verified=1 ORDER BY <col> DESC LIMIT ?
\* the result sets SQLite may return: rows with equal keys come in any order
TopUsers(tbl, col, n) ==
  LET eligible == {c \in DOMAIN tbl : tbl[c].verified = 1}
      sorted == {q \in Orderings(eligible) :
                   \A i \in 1..(Len(q) - 1) : tbl[q[i]][col] >= tbl[q[i + 1]][col]}
  IN {[i \in 1..(IF Len(q) < n THEN Len(q) ELSE n) |-> <<tbl[q[i]].wallet, tbl[q[i]][col]>>] :
        q \in sorted}

\* send_leaderboard's `with db_lock:` block: the three sections it can send
SendLeaderboard(tbl, db) ==
  IF db = "execute_raises" THEN {Outcome(tbl, Plain("db_error", ""))}
  ELSE {Outcome(tbl, [Plain("leaderboard", "") EXCEPT !.board = <<v, r, f>>]) :
          v \in TopUsers(tbl, "total_volume", limit),
          r \in TopUsers(tbl, "total_rewards", limit),
          f \in TopUsers(tbl, "referral_count", limit)}


\* ------------------------------------------------------------ actions
\* the amount of thread t's /buy, when it has one in flight
PendingAmount(t) ==
  IF pc[t] # "idle" /\ Command(msg[t]) = "/buy"
  THEN ParseInt(msg[t].parts[3]).value ELSE 0

RECURSIVE PendingVolume(_)
PendingVolume(S) ==
  IF S = {} THEN 0
  ELSE LET t == CHOOSE x \in S : TRUE
       IN PendingAmount(t) + PendingVolume(S \ {t})

RECURSIVE RecordedVolume(_, _)
RecordedVolume(tbl, S) ==
  IF S = {} THEN 0
  ELSE LET c == CHOOSE x \in S : TRUE
       IN tbl[c].total_volume + RecordedVolume(tbl, S \ {c})

\* model bound: the purchases recorded and in flight add up to at most MaxVolume
WithinVolume(amount) ==
  RecordedVolume(users, DOMAIN users) + PendingVolume(AllThreads) + amount <= MaxVolume

\* mutant of EarlyReply: buy_tokens does not look at the sign of the amount
EarlyReplyAnySign(parts) ==
  IF parts[1] = "/leaderboard" THEN ""
  ELSE IF parts[1] = "/buy" THEN
    IF Len(parts) < 3 THEN "usage"
    ELSE IF ~ParseInt(parts[3]).ok THEN "amount_not_integer"
    ELSE ""
  ELSE IF Len(parts) < 2 THEN "usage" ELSE ""

\* the reply of a handler that returns before `with db_lock:`, or "" if it goes on
EarlyReply(parts) ==
  IF parts[1] = "/leaderboard" THEN ""
  ELSE IF parts[1] = "/buy" THEN
    IF Len(parts) < 3 THEN "usage"
    ELSE IF ~ParseInt(parts[3]).ok THEN "amount_not_integer"
    ELSE IF ParseInt(parts[3]).value <= 0 THEN "amount_not_positive"
    ELSE ""
  ELSE IF Len(parts) < 2 THEN "usage" ELSE ""

\* a message arrives: the handler runs up to `with db_lock:` (buy_tokens reads
\* the clock on the way), or replies and returns on a malformed command.
\* Only verify_wallet uses message.chat.id beyond logging, so the chat of the
\* other commands is left out (0)
Receive(t, messages) ==
  /\ pc[t] = "idle"
  /\ \E parts \in messages :
     \E chat \in (IF parts[1] = "/verify" /\ Len(parts) >= 2 THEN Chats ELSE {0}) :
       LET early == EarlyReply(parts)
       IN
       IF early # "" THEN
         /\ reply' = [reply EXCEPT ![t] = Plain(early, IF Len(parts) >= 2 THEN parts[2] ELSE "")]
         /\ UNCHANGED <<pc, msg>>
       ELSE
         /\ parts[1] = "/buy" => WithinVolume(ParseInt(parts[3]).value)
         /\ pc' = [pc EXCEPT ![t] = "waiting"]
         /\ msg' = [msg EXCEPT ![t] =
                      [chat |-> chat, parts |-> parts,
                       now |-> IF parts[1] = "/buy" THEN clock ELSE <<>>]]
         /\ reply' = [reply EXCEPT ![t] = NoReply]
  /\ UNCHANGED <<users, created, db_lock, clock, fetched>>

Dispatch(t) == Receive(t, Messages)

\* mutant of Acquire: the block is entered without waiting for the lock
AcquireNoExclusion(t) ==
  /\ pc[t] = "waiting"
  /\ db_lock' = t
  /\ pc' = [pc EXCEPT ![t] = "locked"]
  /\ UNCHANGED <<users, created, clock, msg, reply, fetched>>

\* `with db_lock:` is entered
Acquire(t) ==
  /\ pc[t] = "waiting"
  /\ db_lock = NoThread
  /\ db_lock' = t
  /\ pc' = [pc EXCEPT ![t] = "locked"]
  /\ UNCHANGED <<users, created, clock, msg, reply, fetched>>

\* mutant of Finish: the early return of buy_tokens for a wallet that is not
\* verified leaves the block without releasing db_lock
FinishKeepsLockOnReturn(t, out) ==
  /\ users' = out.tbl
  /\ created' = IF DOMAIN out.tbl = DOMAIN users THEN created
                ELSE created \o <<CHOOSE c \in DOMAIN out.tbl : c \notin DOMAIN users>>
  /\ reply' = [reply EXCEPT ![t] = out.reply]
  /\ db_lock' = IF out.reply.kind = "not_verified" THEN db_lock ELSE NoThread
  /\ pc' = [pc EXCEPT ![t] = "idle"]
  /\ msg' = [msg EXCEPT ![t] = NoMsg]
  /\ fetched' = [fetched EXCEPT ![t] = NotFetched]
  /\ UNCHANGED clock

\* the block's effects take place and `with db_lock:` is left
Finish(t, out) ==
  /\ users' = out.tbl
  /\ created' = IF DOMAIN out.tbl = DOMAIN users THEN created
                ELSE created \o <<CHOOSE c \in DOMAIN out.tbl : c \notin DOMAIN users>>
  /\ reply' = [reply EXCEPT ![t] = out.reply]
  /\ db_lock' = NoThread
  /\ pc' = [pc EXCEPT ![t] = "idle"]
  /\ msg' = [msg EXCEPT ![t] = NoMsg]
  /\ fetched' = [fetched EXCEPT ![t] = NotFetched]
  /\ UNCHANGED clock

Locked(t, command) == pc[t] = "locked" /\ Command(msg[t]) = command

VerifyStep(t) ==
  /\ Locked(t, "/verify")
  /\ \E db \in DbOutcomes :
       Finish(t, VerifyWallet(users, msg[t].chat, msg[t].parts[2], clock, db))

\* buy_tokens reads the row of its wallet: cursor.execute(SELECT), fetchone()
BuySelect(t) ==
  /\ Locked(t, "/buy")
  /\ fetched[t] = NotFetched
  /\ fetched' = [fetched EXCEPT ![t] = FetchOne(users, msg[t].parts[2])]
  /\ UNCHANGED <<users, created, db_lock, clock, pc, msg, reply>>

\* the rest of buy_tokens' block, from the row read (an sqlite3.Error of the
\* SELECT is taken here too: it leads to the same reply and changes nothing)
BuyStep(t) ==
  /\ Locked(t, "/buy")
  /\ fetched[t] # NotFetched
  /\ \E db \in DbOutcomes :
       Finish(t, BuyTokens(users, fetched[t], msg[t].parts[2],
                           ParseInt(msg[t].parts[3]).value, msg[t].now, db))

StatusStep(t) ==
  /\ Locked(t, "/status")
  /\ \E db \in DbOutcomes : Finish(t, CheckStatus(users, msg[t].parts[2], db))

ClaimStep(t) ==
  /\ Locked(t, "/claim")
  /\ \E db \in DbOutcomes : Finish(t, ClaimRewards(users, msg[t].parts[2], db))

ReferralsStep(t) ==
  /\ Locked(t, "/referrals")
  /\ \E db \in DbOutcomes : Finish(t, CheckReferrals(users, msg[t].parts[2], db))

LeaderboardStep(t) ==
  /\ Locked(t, "/leaderboard")
  /\ \E db \in DbOutcomes : \E out \in SendLeaderboard(users, db) : Finish(t, out)

\* midnight UTC passes
Tick ==
  /\ Ordinal(clock) - Ordinal(StartDate) < MaxDay
  /\ clock' = NextDay(clock)
  /\ UNCHANGED <<users, created, db_lock, pc, msg, reply, fetched>>

Init ==
  /\ users = EmptyTable
  /\ created = <<>>
  /\ db_lock = NoThread
  /\ clock = StartDate
  /\ pc = [t \in AllThreads |-> "idle"]
  /\ msg = [t \in AllThreads |-> NoMsg]
  /\ reply = [t \in AllThreads |-> NoReply]
  /\ fetched = [t \in AllThreads |-> NotFetched]

Next ==
  \/ \E t \in Threads : Dispatch(t)
  \/ \E t \in Threads : Acquire(t)
  \/ \E t \in Threads : VerifyStep(t)
  \/ \E t \in Threads : BuySelect(t)
  \/ \E t \in Threads : BuyStep(t)
  \/ \E t \in Threads : StatusStep(t)
  \/ \E t \in Threads : ClaimStep(t)
  \/ \E t \in Threads : ReferralsStep(t)
  \/ \E t \in Threads : LeaderboardStep(t)
  \/ Tick

Spec == Init /\ [][Next]_vars


\* --------------------------------------------- start on an existing rewards.db
\* sqlite3.connect(DB_FILE) opens the file a previous deployment left, and
\* CREATE TABLE IF NOT EXISTS keeps its rows: any rows the schema allows,
\* among them rows with referred_by and referral_count set, a NULL or a
\* future last_purchase, and verified = 0.
SeedStreaks == {2, 4, 6, 13, 29}

SeedRow(wallet, verified, streak_days, last_purchase, referral_count, referred_by) ==
  [wallet |-> wallet, verified |-> verified, streak_days |-> streak_days,
   last_purchase |-> last_purchase, total_volume |-> 0,
   referral_count |-> referral_count, total_rewards |-> 0,
   referred_by |-> referred_by]

\* chat 1 owns W1, which referred W2 of chat 2
SeedTable(verified, streak_days, last_purchase) ==
  [c \in Chats |->
     IF c = 1 THEN SeedRow("W1", 1, 0, NullText, 1, NullWallet)
     ELSE SeedRow("W2", verified, streak_days, last_purchase, 0, "W1")]

\* chat 2 alone, its wallet W2 not verified
SeedLoneTable == [c \in {2} |-> SeedRow("W2", 0, 2, StrFTime(StartDate), 0, NullWallet)]

\* chat 2 alone, its wallet W2 verified, with a streak of 4 and a last_purchase
\* that lies in the future
SeedFutureTable ==
  [c \in {2} |-> SeedRow("W2", 1, 4, StrFTime(NextDay(StartDate)), 0, NullWallet)]

SeedTables ==
  {SeedTable(1, s, StrFTime(StartDate)) : s \in SeedStreaks}
    \cup {SeedTable(1, 2, NullText),
          SeedTable(1, 2, StrFTime(NextDay(StartDate))),
          SeedTable(0, 2, StrFTime(StartDate)),
          SeedLoneTable,
          SeedFutureTable}

InitSeeded ==
  /\ users \in SeedTables
  /\ created = (IF DOMAIN users = {2} THEN <<2>> ELSE <<1, 2>>)
  /\ db_lock = NoThread
  /\ clock = StartDate
  /\ pc = [t \in AllThreads |-> "idle"]
  /\ msg = [t \in AllThreads |-> NoMsg]
  /\ reply = [t \in AllThreads |-> NoReply]
  /\ fetched = [t \in AllThreads |-> NotFetched]

SpecSeeded == InitSeeded /\ [][Next]_vars


\* ------------------------------------- requests handled by concurrent threads
\* the web server hands updates to several request threads at once; the
\* messages are those about one wallet, from either chat
ConcMessages ==
  {<<"/verify", "W1">>, <<"/buy", "W1", "1">>, <<"/buy", "W1", "2">>,
   <<"/status", "W1">>, <<"/claim", "W1">>, <<"/referrals", "W1">>,
   <<"/leaderboard">>}

DispatchConc(t) == Receive(t, ConcMessages)

NextConc ==
  \/ \E t \in AllThreads : DispatchConc(t)
  \/ \E t \in AllThreads : Acquire(t)
  \/ \E t \in AllThreads : VerifyStep(t)
  \/ \E t \in AllThreads : BuySelect(t)
  \/ \E t \in AllThreads : BuyStep(t)
  \/ \E t \in AllThreads : StatusStep(t)
  \/ \E t \in AllThreads : ClaimStep(t)
  \/ \E t \in AllThreads : ReferralsStep(t)
  \/ \E t \in AllThreads : LeaderboardStep(t)
  \/ Tick

SpecConc == Init /\ [][NextConc]_vars


\* ------------------------------------------------ progress of the handlers
\* the messages about wallet W2, which an existing rewards.db may hold
\* unverified
LiveMessages ==
  {<<"/verify", "W2">>, <<"/buy", "W2", "1">>, <<"/status", "W2">>,
   <<"/claim", "W2">>, <<"/referrals", "W2">>, <<"/leaderboard">>}

DispatchLive(t) == Receive(t, LiveMessages)

\* a step of thread t inside its `with db_lock:` block (every statement of the
\* block returns or raises, the sends of _safe_reply_to included)
HandlerStep(t) ==
  \/ VerifyStep(t)
  \/ BuySelect(t)
  \/ BuyStep(t)
  \/ StatusStep(t)
  \/ ClaimStep(t)
  \/ ReferralsStep(t)
  \/ LeaderboardStep(t)

InitLive ==
  /\ users \in {EmptyTable, SeedLoneTable}
  /\ created = (IF users = EmptyTable THEN <<>> ELSE <<2>>)
  /\ db_lock = NoThread
  /\ clock = StartDate
  /\ pc = [t \in AllThreads |-> "idle"]
  /\ msg = [t \in AllThreads |-> NoMsg]
  /\ reply = [t \in AllThreads |-> NoReply]
  /\ fetched = [t \in AllThreads |-> NotFetched]

NextLive ==
  \/ \E t \in AllThreads : DispatchLive(t)
  \/ \E t \in AllThreads : Acquire(t)
  \/ \E t \in AllThreads : HandlerStep(t)

\* a running thread keeps running (weak fairness of the steps inside the
\* block); a thread blocked in db_lock.acquire() gets the lock when it is
\* released again and again (strong fairness of the acquisition)
FairLive ==
  \A t \in AllThreads : WF_vars(HandlerStep(t)) /\ SF_vars(Acquire(t))

SpecLive == InitLive /\ [][NextLive]_vars /\ FairLive


\* ================================================================ claims
\* the calendar date k days after StartDate
RECURSIVE Day(_)
Day(k) == IF k = 0 THEN StartDate ELSE NextDay(Day(k - 1))

\* the dates the clock or a stored last_purchase can show
Window == 0..(MaxDay + 1)

\* how many days date p lies after date d
DaysAfter(d, p) ==
  (CHOOSE k \in Window : Day(k) = p) - (CHOOSE k \in Window : Day(k) = d)

\* the row of wallet in tbl
RowOf(tbl, wallet) == tbl[CHOOSE c \in SelectByWallet(tbl, wallet) : TRUE]

\* in this step thread t's /buy records a purchase successfully
BuyRecorded(t) == Locked(t, "/buy") /\ reply'[t].kind = "buy_recorded"

BuyWallet(t) == msg[t].parts[2]
BuyAmount(t) == ParseInt(msg[t].parts[3]).value

\* C1 (streak law): a successful purchase on an account whose stored
\* last_purchase is the date D and whose streak is s leaves streak s + 1 when
\* it is dated D + 1, streak 1 when it is dated D + k with k > 1, and streak s
\* when it is dated D.
C1_StreakLaw ==
  [][\A t \in AllThreads : BuyRecorded(t) =>
       LET before == RowOf(users, BuyWallet(t))
           after == RowOf(users', BuyWallet(t))
       IN \A k \in Window :
            before.last_purchase = StrFTime(Day(k)) =>
              LET gap == DaysAfter(Day(k), msg[t].now)
              IN /\ gap = 1 => after.streak_days = before.streak_days + 1
                 /\ gap > 1 => after.streak_days = 1
                 /\ gap = 0 => after.streak_days = before.streak_days]_vars

\* a purchase on the day after the previous one has raised a streak of 1 to 2
C1_Witness ==
  \E t \in AllThreads :
    /\ reply[t].kind = "buy_recorded"
    /\ reply[t].streak = 2
    /\ RowOf(users, reply[t].wallet).streak_days = 2

\* the reward the specification's table gives for a streak
MilestoneReward(streak) ==
  CASE streak = 3 -> 50000
    [] streak = 5 -> 100000
    [] streak = 7 -> 200000
    [] streak = 14 -> 500000
    [] streak = 30 -> 1000000
    [] OTHER -> 0

\* C2 (reward law): a successful purchase raises the account's total_rewards
\* by exactly the milestone reward of the streak it leaves: 50000, 100000,
\* 200000, 500000, 1000000 for 3, 5, 7, 14, 30 days, and 0 for any other.
C2_RewardLaw ==
  [][\A t \in AllThreads : BuyRecorded(t) =>
       LET before == RowOf(users, BuyWallet(t))
           after == RowOf(users', BuyWallet(t))
       IN after.total_rewards - before.total_rewards
            = MilestoneReward(after.streak_days)]_vars

\* a purchase has reached the 30-day milestone and was paid 1000000
C2_Witness ==
  \E t \in AllThreads :
    /\ reply[t].kind = "buy_recorded"
    /\ reply[t].streak = 30
    /\ reply[t].reward = 1000000
    /\ RowOf(users, reply[t].wallet).total_rewards = 1000000

\* C3 (volume law): a successful purchase of amount > 0 leaves total_volume
\* equal to the total_volume before it plus amount, whatever the streak did.
C3_VolumeLaw ==
  [][\A t \in AllThreads : BuyRecorded(t) =>
       /\ BuyAmount(t) > 0
       /\ RowOf(users', BuyWallet(t)).total_volume
            = RowOf(users, BuyWallet(t)).total_volume + BuyAmount(t)]_vars

\* repeated purchases on one day (the streak is still that of the day of
\* verification) have added up to a volume of 3
C3_Witness ==
  \E t \in AllThreads :
    /\ reply[t].kind = "buy_recorded"
    /\ reply[t].volume = 3
    /\ reply[t].streak = 0
    /\ RowOf(users, reply[t].wallet).total_volume = 3


\* the account has recorded no purchase yet (every purchase adds amount > 0)
NoPurchaseYet(row) == row.total_volume = 0

\* C4 (first purchase): the first successful purchase of an account created
\* by /verify leaves streak_days = 1 and pays no reward, on whatever day it
\* happens relative to the day of verification.
C4_FirstPurchase ==
  [][\A t \in AllThreads : BuyRecorded(t) =>
       LET before == RowOf(users, BuyWallet(t))
           after == RowOf(users', BuyWallet(t))
       IN NoPurchaseYet(before) =>
            /\ after.streak_days = 1
            /\ reply'[t].streak = 1
            /\ reply'[t].reward = 0
            /\ after.total_rewards = before.total_rewards]_vars

\* C5 (streak meaning): streak_days of an account with at least one purchase
\* is the number of consecutive calendar days, ending at the day of its latest
\* purchase, with a purchase on each. Purchase by purchase (the stored
\* last_purchase of an account with a purchase is the day of its latest one):
\* the first purchase starts a run of 1, a purchase on the same day keeps the
\* run, one on the next day extends it by 1, a later one starts a run of 1,
\* and nothing but a purchase changes it.
C5_StreakCountsDays ==
  [][\A c \in DOMAIN users :
       LET before == users[c]
           after == users'[c]
           buyers == {t \in AllThreads : BuyRecorded(t) /\ BuyWallet(t) = before.wallet}
       IN IF buyers = {}
          THEN ~NoPurchaseYet(before) => after.streak_days = before.streak_days
          ELSE \A t \in buyers :
                 IF NoPurchaseYet(before) THEN after.streak_days = 1
                 ELSE LET gap == DaysAfter(StrPTime(before.last_purchase), msg[t].now)
                      IN after.streak_days =
                           (IF gap = 0 THEN before.streak_days
                            ELSE IF gap = 1 THEN before.streak_days + 1
                            ELSE 1)]_vars

\* C6 (one-time milestone payout): within one run of a streak a milestone's
\* reward is paid at most once: a purchase that leaves the streak where it
\* was (a further purchase on the day of the latest one) pays no reward.
C6_MilestonePaidOnce ==
  [][\A t \in AllThreads : BuyRecorded(t) =>
       LET before == RowOf(users, BuyWallet(t))
           after == RowOf(users', BuyWallet(t))
       IN (~NoPurchaseYet(before)
             /\ before.last_purchase = StrFTime(msg[t].now)
             /\ after.streak_days = before.streak_days)
          => after.total_rewards = before.total_rewards]_vars


\* total_rewards of the row of wallet
RewardsOf(tbl, wallet) == RowOf(tbl, wallet).total_rewards

\* min(floor(0.05 * reward), 500000)
ReferralBonus(reward) ==
  LET bonus == (5 * reward) \div 100
  IN IF bonus < 500000 THEN bonus ELSE 500000

VerifyRuns(t) == Locked(t, "/verify") /\ pc'[t] = "idle"

\* in this step thread t's /verify creates the account of its wallet
VerifyCreates(t) ==
  /\ VerifyRuns(t)
  /\ SelectByWallet(users, msg[t].parts[2]) = {}
  /\ SelectByWallet(users', msg[t].parts[2]) # {}

\* the referrer a /verify names after the wallet, or NullWallet
NamedReferrer(t) == IF Len(msg[t].parts) >= 3 THEN msg[t].parts[3] ELSE NullWallet

\* C8 (registerReferral): when a new account is created naming an existing,
\* distinct account as referrer, the referrer's referral_count grows by
\* exactly 1, the new account's referred_by is the referrer, and no
\* total_rewards changes; when the named referrer has no account, no referral
\* is recorded; and a referred_by, once stored, never changes.
C8_RegisterReferral ==
  [][/\ \A t \in AllThreads : VerifyCreates(t) /\ NamedReferrer(t) # NullWallet =>
          LET wallet == msg[t].parts[2]
              referrer == NamedReferrer(t)
          IN IF referrer # wallet /\ SelectByWallet(users, referrer) # {}
             THEN /\ RowOf(users', referrer).referral_count
                       = RowOf(users, referrer).referral_count + 1
                  /\ RowOf(users', wallet).referred_by = referrer
                  /\ \A c \in DOMAIN users : users'[c].total_rewards = users[c].total_rewards
                  /\ RowOf(users', wallet).total_rewards = 0
             ELSE /\ RowOf(users', wallet).referred_by = NullWallet
                  /\ \A c \in DOMAIN users : users'[c] = users[c]
     /\ \A c \in DOMAIN users :
          c \in DOMAIN users' /\ users'[c].referred_by = users[c].referred_by]_vars

\* C9 (verify idempotence): a /verify of a wallet by the chat that already
\* verified it changes no field of any account, whatever was purchased since.
C9_VerifyIdempotent ==
  [][\A t \in AllThreads :
       (/\ VerifyRuns(t)
        /\ SelectByWallet(users, msg[t].parts[2]) = {msg[t].chat}
        /\ users[msg[t].chat].verified = 1)
       => /\ users' = users
          /\ reply'[t].kind \in {"already_verified", "db_error"}]_vars

\* the owner verified again after purchases and was told so
C9_Witness ==
  \E t \in AllThreads :
    /\ reply[t].kind = "already_verified"
    /\ SelectByWallet(users, reply[t].wallet) # {}
    /\ RowOf(users, reply[t].wallet).total_volume > 0
    /\ RowOf(users, reply[t].wallet).streak_days > 0

\* C10 (verify conflict): a /verify of a wallet whose account is linked to
\* another chat is rejected and leaves every account as it was, the wallet
\* still linked to its owner.
C10_VerifyConflict ==
  [][\A t \in AllThreads :
       (/\ VerifyRuns(t)
        /\ SelectByWallet(users, msg[t].parts[2]) # {}
        /\ msg[t].chat \notin SelectByWallet(users, msg[t].parts[2]))
       => /\ users' = users
          /\ SelectByWallet(users', msg[t].parts[2]) = SelectByWallet(users, msg[t].parts[2])
          /\ reply'[t].kind \in {"linked_to_another", "db_error"}]_vars

\* a chat that owns no account was refused a wallet that another chat owns
C10_Witness ==
  \E t \in AllThreads :
    /\ reply[t].kind = "linked_to_another"
    /\ Cardinality(DOMAIN users) = 1
    /\ SelectByWallet(users, reply[t].wallet) # {}

\* this step is thread t's handler of command running to the end of its
\* `with db_lock:` block
Runs(t, command) == Locked(t, command) /\ pc'[t] = "idle"

\* C11 (verify creation): a /verify of a wallet that has no account creates
\* exactly one account, for that wallet, with verified = 1, streak_days = 0,
\* total_volume = 0, total_rewards = 0, referral_count = 0, no referred_by
\* and no last_purchase (NULL: no purchase date recorded).
C11_VerifyCreation ==
  [][\A t \in AllThreads : VerifyCreates(t) =>
       LET wallet == msg[t].parts[2]
           new == DOMAIN users' \ DOMAIN users
       IN /\ Cardinality(new) = 1
          /\ \A c \in new :
               /\ users'[c].wallet = wallet
               /\ users'[c].verified = 1
               /\ users'[c].streak_days = 0
               /\ users'[c].total_volume = 0
               /\ users'[c].total_rewards = 0
               /\ users'[c].referral_count = 0
               /\ users'[c].referred_by = NullWallet
               /\ users'[c].last_purchase = NullText
          /\ \A c \in DOMAIN users : users'[c] = users[c]]_vars

\* C12 (unknown wallet): a /buy with a positive amount on a wallet that has
\* no account ends with the wallet-not-found reply (or the database-error
\* reply when the SELECT raised), creates no account and leaves every account
\* as it was.
C12_UnknownWallet ==
  [][\A t \in AllThreads :
       (Runs(t, "/buy") /\ BuyAmount(t) > 0 /\ SelectByWallet(users, BuyWallet(t)) = {})
       => /\ users' = users
          /\ created' = created
          /\ reply'[t].kind \in {"wallet_not_found", "db_error"}]_vars

\* a purchase on a wallet without account was refused while another wallet
\* has an account with a purchase
C12_Witness ==
  \E t \in AllThreads :
    /\ reply[t].kind = "wallet_not_found"
    /\ SelectByWallet(users, reply[t].wallet) = {}
    /\ \E c \in DOMAIN users : users[c].total_volume > 0

\* C13 (invalid amount): a /buy whose amount is an integer <= 0 is answered
\* "Amount must be a positive integer" for every wallet, with or without
\* account, before the wallet is looked up: the handler returns without
\* entering its `with db_lock:` block, no account changes, and no /buy in
\* flight towards the lookup ever carries an amount <= 0.
C13_InvalidAmount ==
  [][/\ \A w \in Wallets : \A a \in AmountTexts :
          (ParseInt(a).ok /\ ParseInt(a).value <= 0)
            => EarlyReply(<<"/buy", w, a>>) = "amount_not_positive"
     /\ \A t \in AllThreads :
          /\ (pc'[t] # "idle" /\ Command(msg'[t]) = "/buy")
               => ParseInt(msg'[t].parts[3]).value > 0
          /\ (reply'[t] # reply[t] /\ reply'[t].kind = "amount_not_positive")
               => /\ users' = users
                  /\ created' = created
                  /\ pc[t] = "idle" /\ pc'[t] = "idle"
                  /\ db_lock' = db_lock]_vars

\* a /buy with a non-positive amount on a wallet without account was answered
\* with the invalid-amount reply (not with wallet-not-found), accounts existing
C13_Witness ==
  \E t \in AllThreads :
    /\ reply[t].kind = "amount_not_positive"
    /\ SelectByWallet(users, reply[t].wallet) = {}
    /\ users # EmptyTable

\* C14 (monotonic totals): in every step, whatever handlers interleave, every
\* account stays and neither its total_volume nor its total_rewards decreases.
C14_MonotonicTotals ==
  [][\A c \in DOMAIN users :
       /\ c \in DOMAIN users'
       /\ users'[c].total_volume >= users[c].total_volume
       /\ users'[c].total_rewards >= users[c].total_rewards]_vars

\* an account has gained volume over several purchases and a milestone reward
C14_Witness ==
  \E c \in DOMAIN users :
    /\ users[c].total_volume >= 3
    /\ users[c].total_rewards > 0

\* C15 (no lost update): with buy handlers running concurrently on one
\* wallet, the row a handler read is still the stored row when it writes
\* back, the write adds exactly its amount to total_volume and exactly the
\* reward it reports to total_rewards, and no step other than the end of a
\* /buy changes either total: so the totals after any number of recorded
\* purchases are the initial ones plus the sums of the amounts and of the
\* rewards reported.
C15_NoLostUpdate ==
  [][/\ \A t \in AllThreads : BuyRecorded(t) =>
          LET before == RowOf(users, BuyWallet(t))
              after == RowOf(users', BuyWallet(t))
          IN /\ fetched[t].row = before
             /\ after.total_volume = before.total_volume + BuyAmount(t)
             /\ after.total_rewards = before.total_rewards + reply'[t].reward
     /\ (\A t \in AllThreads : ~Runs(t, "/buy")) =>
          \A c \in DOMAIN users :
            /\ users'[c].total_volume = users[c].total_volume
            /\ users'[c].total_rewards = users[c].total_rewards]_vars

\* one handler is between its read and its write of the row of a wallet with
\* purchases while the other, with a /buy on the same wallet, waits for db_lock
C15_Witness ==
  \E t \in AllThreads : \E u \in AllThreads \ {t} :
    /\ pc[t] = "locked" /\ Command(msg[t]) = "/buy"
    /\ fetched[t].state = "row" /\ fetched[t].row.total_volume > 0
    /\ pc[u] = "waiting" /\ Command(msg[u]) = "/buy"
    /\ msg[u].parts[2] = msg[t].parts[2]

\* C16 (commit or no effect): when a /verify or /buy ends with the
\* database-error reply, the accounts the shared connection shows to later
\* handlers (and that a later commit makes durable) are those before the call.
C16_CommitOrNoEffect ==
  [][\A t \in AllThreads :
       ((Runs(t, "/verify") \/ Runs(t, "/buy")) /\ reply'[t].kind = "db_error")
       => users' = users]_vars

\* C17 (wallet uniqueness): no two accounts have the same wallet, however the
\* /verify handlers of different chats interleave.
C17_WalletUnique ==
  \A c1 \in DOMAIN users : \A c2 \in DOMAIN users :
    users[c1].wallet = users[c2].wallet => c1 = c2

\* both threads handled a /verify of the same wallet: one created the
\* account, the other, from another chat, was refused
C17_Witness ==
  \E t \in AllThreads : \E u \in AllThreads \ {t} :
    /\ reply[t].kind = "verified"
    /\ reply[u].kind = "linked_to_another"
    /\ reply[u].wallet = reply[t].wallet
    /\ Cardinality(SelectByWallet(users, reply[t].wallet)) = 1

QueryCommands == {"/status", "/claim", "/referrals", "/leaderboard"}

\* C18 (queries are read-only): /status, /claim, /referrals and /leaderboard
\* change no field of any account and create none, whether the wallet has a
\* verified account, an unverified one, or none; with none the reply is
\* wallet-not-found (or database-error when the SELECT raised).
C18_QueriesReadOnly ==
  [][\A t \in AllThreads : \A q \in QueryCommands : Runs(t, q) =>
       /\ users' = users
       /\ created' = created
       /\ (q # "/leaderboard" /\ SelectByWallet(users, msg[t].parts[2]) = {})
            => reply'[t].kind \in {"wallet_not_found", "db_error"}]_vars

\* a /status on an unverified account was answered with its streak, which is
\* still stored, while the other wallet has no account
C18_Witness ==
  \E t \in AllThreads :
    /\ reply[t].kind = "status_not_verified"
    /\ reply[t].streak = 2
    /\ RowOf(users, reply[t].wallet).streak_days = 2
    /\ RowOf(users, reply[t].wallet).verified = 0
    /\ \E w \in Wallets : SelectByWallet(users, w) = {}

\* position of chat c in the order of creation
CreatedAt(crt, c) == CHOOSE i \in 1..Len(crt) : crt[i] = c

\* one leaderboard list, of <<wallet, key>> pairs, against the table
BoardOk(tbl, crt, list, col) ==
  LET verified == {c \in DOMAIN tbl : tbl[c].verified = 1}
      owner(i) == CHOOSE c \in DOMAIN tbl : tbl[c].wallet = list[i][1]
      listed == {owner(i) : i \in 1..Len(list)}
  IN /\ Len(list) <= 5
     /\ \A i \in 1..Len(list) :
          /\ SelectByWallet(tbl, list[i][1]) # {}
          /\ owner(i) \in verified
          /\ list[i][2] = tbl[owner(i)][col]
     /\ \A i \in 1..Len(list) : \A j \in 1..Len(list) :
          i < j => /\ list[i][2] >= list[j][2]
                   /\ list[i][2] = list[j][2]
                        => CreatedAt(crt, owner(i)) < CreatedAt(crt, owner(j))
     /\ \A c \in verified \ listed : \A i \in 1..Len(list) : tbl[c][col] <= list[i][2]

\* C19 (leaderboard): each of the three lists of a /leaderboard reply holds
\* only verified accounts, at most 5 of them, in descending order of its key,
\* leaves out no account with a key greater than a listed one, and lists
\* accounts with equal keys in the order of their creation.
C19_Leaderboard ==
  [][\A t \in AllThreads :
       (Runs(t, "/leaderboard") /\ reply'[t].kind = "leaderboard") =>
         /\ BoardOk(users, created, reply'[t].board[1], "total_volume")
         /\ BoardOk(users, created, reply'[t].board[2], "total_rewards")
         /\ BoardOk(users, created, reply'[t].board[3], "referral_count")]_vars

StoredAfter(last_purchase, d) ==
  last_purchase # NullText /\ Ordinal(StrPTime(last_purchase)) > Ordinal(d)

\* C21 (future-date fallback): a successful purchase on an account whose
\* stored last_purchase is later than the UTC date of the purchase leaves
\* streak_days = 1, adds the amount to total_volume, pays no reward, and
\* stores the (earlier) date of the purchase as last_purchase.
C21_FutureDateFallback ==
  [][\A t \in AllThreads : BuyRecorded(t) =>
       LET before == RowOf(users, BuyWallet(t))
           after == RowOf(users', BuyWallet(t))
       IN StoredAfter(before.last_purchase, msg[t].now) =>
            /\ after.streak_days = 1
            /\ reply'[t].streak = 1
            /\ after.total_volume = before.total_volume + BuyAmount(t)
            /\ reply'[t].reward = 0
            /\ after.total_rewards = before.total_rewards
            /\ after.last_purchase = StrFTime(msg[t].now)
            /\ StoredAfter(before.last_purchase, StrPTime(after.last_purchase))]_vars

\* the account whose stored last_purchase lay a day ahead of the clock (with
\* a streak of 4) has recorded a purchase: its streak is 1 and its
\* last_purchase the day of the purchase
C21_Witness ==
  \E t \in AllThreads :
    /\ DOMAIN users = {2}
    /\ clock = StartDate
    /\ reply[t].kind = "buy_recorded"
    /\ reply[t].streak = 1
    /\ reply[t].reward = 0
    /\ users[2].streak_days = 1
    /\ users[2].total_volume = reply[t].volume
    /\ users[2].last_purchase = StrFTime(StartDate)

\* C22 (purchase date never goes backward): with buy handlers running
\* concurrently on one wallet and a clock that only advances, the last_purchase
\* a purchase has stored never becomes an earlier date, and no purchase is
\* recorded with a date earlier than that of a purchase recorded before it
\* (the days_diff < 0 branch is never taken).
C22_DateNeverBackward ==
  [][/\ \A c \in DOMAIN users :
          (c \in DOMAIN users' /\ ~NoPurchaseYet(users[c])) =>
             ~StoredAfter(users[c].last_purchase, StrPTime(users'[c].last_purchase))
     /\ \A t \in AllThreads :
          (BuyRecorded(t) /\ ~NoPurchaseYet(RowOf(users, BuyWallet(t)))) =>
             ~StoredAfter(RowOf(users, BuyWallet(t)).last_purchase, msg[t].now)]_vars

\* C23 (frame of buy): a /buy on wallet W changes nothing but streak_days,
\* last_purchase, total_volume and total_rewards of W's own row: W's verified
\* flag, chat_id, wallet, referral_count and referred_by, every field of every
\* other row (a referrer's included) and the set of rows stay as they were.
C23_BuyFrame ==
  [][\A t \in AllThreads : Runs(t, "/buy") =>
       /\ DOMAIN users' = DOMAIN users
       /\ created' = created
       /\ \A c \in DOMAIN users :
            IF users[c].wallet = BuyWallet(t)
            THEN /\ users'[c].wallet = users[c].wallet
                 /\ users'[c].verified = users[c].verified
                 /\ users'[c].referral_count = users[c].referral_count
                 /\ users'[c].referred_by = users[c].referred_by
            ELSE users'[c] = users[c]]_vars

\* a purchase on W2, which W1 referred, was paid a milestone reward, and the
\* row of W1 still shows no rewards, no volume and its one referral
C23_Witness ==
  \E t \in AllThreads :
    /\ reply[t].kind = "buy_recorded"
    /\ reply[t].wallet = "W2"
    /\ reply[t].reward > 0
    /\ SelectByWallet(users, "W1") # {}
    /\ RowOf(users, "W2").referred_by = "W1"
    /\ RowOf(users, "W2").total_rewards = reply[t].total
    /\ RowOf(users, "W1").total_rewards = 0
    /\ RowOf(users, "W1").total_volume = 0
    /\ RowOf(users, "W1").referral_count = 1

NotVerifiedReplies ==
  {"not_verified", "status_not_verified", "claim_not_verified",
   "referrals_not_verified", "re_verified"}

\* C24 (every account is verified): every row has verified = 1, and no
\* handler ever takes a not-verified branch (the rejection of buy_tokens, the
\* not-verified replies of the queries, the re-verification of verify_wallet).
C24_EveryAccountVerified ==
  /\ \A c \in DOMAIN users : users[c].verified = 1
  /\ \A t \in AllThreads : reply[t].kind \notin NotVerifiedReplies

\* accounts exist, one with a purchase recorded, and a /claim was answered
\* with its verified branch
C24_Witness ==
  /\ Cardinality(DOMAIN users) = 2
  /\ \E c \in DOMAIN users : users[c].total_volume > 0
  /\ \E t \in AllThreads : reply[t].kind = "claim_rewards"

\* no chat_id occurs twice in the order of creation
NoDuplicates(seq) == \A i \in 1..Len(seq) : \A j \in 1..Len(seq) : seq[i] = seq[j] => i = j

\* C25 (one wallet per chat): every chat_id has at most one row (each row
\* was created once, for one wallet), and a /verify by a chat that owns a row,
\* naming a different wallet that has no account, creates no row and changes
\* nothing.
C25_OneWalletPerChat ==
  [][/\ NoDuplicates(created')
     /\ {created'[i] : i \in 1..Len(created')} = DOMAIN users'
     /\ \A t \in AllThreads :
          (/\ VerifyRuns(t)
           /\ msg[t].chat \in DOMAIN users
           /\ users[msg[t].chat].wallet # msg[t].parts[2]
           /\ SelectByWallet(users, msg[t].parts[2]) = {})
          => /\ users' = users
             /\ created' = created
             /\ reply'[t].kind \in {"integrity_error", "db_error"}]_vars

\* a chat that owns an account with a purchase was refused a second wallet,
\* which still has no account
C25_Witness ==
  \E t \in AllThreads :
    /\ reply[t].kind = "integrity_error"
    /\ SelectByWallet(users, reply[t].wallet) = {}
    /\ Cardinality(DOMAIN users) = 1
    /\ \E c \in DOMAIN users : users[c].total_volume > 0

\* C26 (referral state is inert): every row has referral_count = 0 and no
\* referred_by, in every state, and a purchase changes the total_rewards of
\* no row but that of its own wallet: no referral bonus is ever credited.
C26_ReferralInert ==
  [][/\ \A c \in DOMAIN users' :
          /\ users'[c].referral_count = 0
          /\ users'[c].referred_by = NullWallet
     /\ \A t \in AllThreads : BuyRecorded(t) =>
          \A c \in DOMAIN users :
            users[c].wallet # BuyWallet(t) => users'[c].total_rewards = users[c].total_rewards]_vars

\* two accounts exist and a purchase on one of them was paid a milestone
\* reward; the other holds no rewards
C26_Witness ==
  \E t \in AllThreads :
    /\ reply[t].kind = "buy_recorded"
    /\ reply[t].reward > 0
    /\ Cardinality(DOMAIN users) = 2
    /\ \E c \in DOMAIN users : users[c].wallet # reply[t].wallet /\ users[c].total_rewards = 0

\* C27 (accounts are permanent): an account that exists for a wallet exists
\* in every later state, with the same wallet and the same chat_id, whatever
\* handlers run.
C27_AccountsPermanent ==
  [][/\ \A c \in DOMAIN users :
          /\ c \in DOMAIN users'
          /\ users'[c].wallet = users[c].wallet
     /\ \A w \in Wallets :
          SelectByWallet(users, w) # {} => SelectByWallet(users', w) = SelectByWallet(users, w)]_vars

\* the account of a wallet is still there, linked to its chat, after
\* purchases on it, a refused /verify by the other chat and the creation of
\* the other chat's own account
C27_Witness ==
  \E t \in AllThreads :
    /\ reply[t].kind = "linked_to_another"
    /\ Cardinality(DOMAIN users) = 2
    /\ RowOf(users, reply[t].wallet).total_volume > 0

====
